---- MODULE Spec2Model ----
(***************************************************************************)
(* Descendant tracking: the polling engine (track_descendants.c) and the   *)
(* event-driven engine (track_kqueue.c), run against a small world of      *)
(* tracked processes.                                                      *)
(*                                                                         *)
(* The tracker is single threaded.  It interacts with the tracked          *)
(* processes only through system calls, so one tracker action is one       *)
(* system call together with the purely local code that follows it up to   *)
(* the next system call.  The tracked processes fork, exit and reap        *)
(* between any two tracker actions.                                        *)
(***************************************************************************)
EXTENDS Integers, Sequences, FiniteSets, TLC

\* ------------------------------------------------------------------ bounds
\* Number of PIDs the world may hand out (the command is the first).
MaxProcs == 3
\* Number of signals that may interrupt a blocking call of the tracker.
MaxIntr == 1
\* Number of processes of a tree forked before the tracker's first call.
BurstProcs == 5
\* Number of calls that may fail for a reason other than a dead process.
MaxFaults == 1
\* Largest number of children of one process handed to the enumerator.
MaxChildren == 33
\* Number of pid_set operations applied in a row.
MaxOps == 3

\* ------------------------------------------------------- program constants
\* Initial capacity of a pid_set / child_buffer.
InitialCapacity == 16
\* Size of the events[] array handed to kevent().
MaxEvents == 32

PidMax == IF MaxProcs > BurstProcs THEN MaxProcs ELSE BurstProcs
Procs == 1..PidMax
\* The PID fork() returned to the tracker: `child` in both mains.
child == 1

VARIABLES
    \* ---- the world
    pstate,        \* pid -> "unborn" | "running" | "zombie" | "gone"
    parent,        \* pid -> the pid that forked it (0: the tracker / nobody)
    cmd_live,      \* pid -> whether the command was still running at its fork
    sigchld_ign,   \* the tracker inherited SIGCHLD = SIG_IGN (children auto-reaped)
    kq_reg,        \* pids with a knote attached to a live process
    kq_pend,       \* triggered knotes, in activation order: [ident, fflags]
    intr,          \* signals delivered to the tracker so far
    enumerated,    \* pids proc_listchildpids has returned to the tracker
    \* ---- the tracker
    engine,        \* "poll" (track_descendants.c) | "kq" (track_kqueue.c)
    pc,            \* the system call the tracker is about to make
    seen, active, next_active, to_poll, next_to_poll,   \* struct pid_set
    child_buf,     \* struct child_buffer
    child_exited,
    i, j, child_count,      \* polling: loop indices (0-based) and list length
    stack,         \* kqueue: activations of ensure_children, innermost last
    listed,        \* kqueue: PIDs ensure_children ran for in the current outermost call
    arg,           \* pid argument of the pending system call
    wsite,         \* kqueue: which call site of watch_pid is pending
    already_seen,  \* kqueue: add_pid_watch's local
    events, ei,    \* kqueue: events[] of the current batch and its index
    output,        \* lines printed on stdout
    errlog,        \* prefixes of the perror() lines printed on stderr
    exit_code      \* -1 while running, else the process exit status

envvars == <<pstate, parent, cmd_live, sigchld_ign, kq_reg, kq_pend, intr, enumerated>>
trkvars == <<engine, pc, seen, active, next_active, to_poll, next_to_poll,
             child_buf, child_exited, i, j, child_count, stack, arg, wsite,
             already_seen, events, ei, output, exit_code, listed, errlog>>
vars == <<pstate, parent, cmd_live, sigchld_ign, kq_reg, kq_pend, intr, enumerated,
          engine, pc, seen, active, next_active, to_poll, next_to_poll,
          child_buf, child_exited, i, j, child_count, stack, arg, wsite,
          already_seen, events, ei, output, exit_code, listed, errlog>>

\* ----------------------------------------------------------------- pid_set
\* struct pid_set: data[0..count-1] is `data`, count is Len(data).
EmptySet == [data |-> <<>>, capacity |-> 0]

Members(set) == {set.data[k] : k \in 1..Len(set.data)}

pid_set_count(set) == Len(set.data)

pid_set_contains(set, pid) == \E k \in 1..Len(set.data) : set.data[k] = pid

\* Mutant: a PID that is already present is appended again.
pid_set_add_unchecked(set, pid) ==
    IF pid <= 0
    THEN set
    ELSE [data |-> Append(set.data, pid),
          capacity |-> IF Len(set.data) = set.capacity
                       THEN (IF set.capacity # 0 THEN set.capacity * 2
                                                 ELSE InitialCapacity)
                       ELSE set.capacity]

pid_set_add(set, pid) ==
    IF pid <= 0 \/ pid_set_contains(set, pid)
    THEN set
    ELSE [data |-> Append(set.data, pid),
          capacity |-> IF Len(set.data) = set.capacity
                       THEN (IF set.capacity # 0 THEN set.capacity * 2
                                                 ELSE InitialCapacity)
                       ELSE set.capacity]

\* Mutant: the last element is dropped without being moved into the hole.
pid_set_remove_last(set, pid) ==
    IF ~pid_set_contains(set, pid)
    THEN set
    ELSE [set EXCEPT !.data = SubSeq(set.data, 1, Len(set.data) - 1)]

pid_set_remove(set, pid) ==
    IF ~pid_set_contains(set, pid)
    THEN set
    ELSE LET n == Len(set.data)
             k == CHOOSE x \in 1..n :
                      /\ set.data[x] = pid
                      /\ \A y \in 1..(x - 1) : set.data[y] # pid
             moved == [set.data EXCEPT ![k] = set.data[n]]
         IN  [set EXCEPT !.data = SubSeq(moved, 1, n - 1)]

pid_set_clear(set) == [set EXCEPT !.data = <<>>]

\* pid_set_swap(&a, &b): the new <<a, b>>.
pid_set_swap(a, b) == <<b, a>>

pid_set_free(set) == EmptySet

\* ---------------------------------------------------------------- the world
Running(p) == p \in Procs /\ pstate[p] = "running"

\* A process that has not been reaped still owns its PID.
Exists(p) == p \in Procs /\ pstate[p] \in {"running", "zombie"}

NextPid == 1 + Cardinality({p \in Procs : pstate[p] # "unborn"})

\* Live children of p, newest first (the order of the kernel's process list).
RECURSIVE DescSeq(_)
DescSeq(S) ==
    IF S = {} THEN <<>>
    ELSE LET m == CHOOSE x \in S : \A y \in S : y <= x
         IN  <<m>> \o DescSeq(S \ {m})

KernelChildren(p) == DescSeq({q \in Procs : parent[q] = p /\ pstate[q] = "running"})

\* Trigger `flag` on the knote of p: a knote that is already triggered keeps
\* its place in the queue and accumulates the flag.
Post(pend, p, flag) ==
    IF \E k \in 1..Len(pend) : pend[k].ident = p
    THEN [k \in 1..Len(pend) |->
             IF pend[k].ident = p
             THEN [pend[k] EXCEPT !.fflags = @ \cup {flag}]
             ELSE pend[k]]
    ELSE Append(pend, [ident |-> p, fflags |-> {flag}])


\* --------------------------------------------------- system calls, as seen
\* kill(pid, 0): the errno it ends with ("OK" for a return value of 0).  A
\* zombie still owns its PID, so the call succeeds on it.
kill0(pid) == IF Exists(pid) THEN "OK" ELSE "ESRCH"

\* What one call of list_children(pid, ...) meets: the errno the kernel has
\* for pid, the live children of pid, and which of the allocations of the
\* call fails (0: none).
Kernel(pid) ==
    [errno |-> IF Running(pid) THEN "OK" ELSE "ESRCH",
     kids |-> KernelChildren(pid),
     fail_at |-> 0]

\* proc_listchildpids(pid, buffer->data, capacity * sizeof(pid_t)): the count
\* it returns and the PIDs it writes, never more than the buffer holds.  With
\* a NULL buffer the kernel writes nothing and answers with its estimate of
\* the room needed, the number of processes plus 20.
proc_listchildpids(sys, buffer) ==
    IF sys.errno # "OK"
    THEN [result |-> -1, pids |-> <<>>, errno |-> sys.errno]
    ELSE IF buffer.is_null
    THEN [result |-> Cardinality({p \in Procs : Exists(p)}) + 20, pids |-> <<>>,
          errno |-> "OK"]
    ELSE LET n == IF Len(sys.kids) < buffer.capacity THEN Len(sys.kids)
                  ELSE buffer.capacity
         IN  [result |-> n, pids |-> SubSeq(sys.kids, 1, n), errno |-> "OK"]

\* The PIDs the kernel returns for the children of a pid it answers for as sys.
Returned(sys) ==
    IF sys.errno = "OK" THEN {sys.kids[k] : k \in 1..Len(sys.kids)} ELSE {}

\* kevent(kq, &kev, 1, NULL, 0, NULL) registering EVFILT_PROC on pid: errno.
kevent_add(pid) == IF Running(pid) THEN "OK" ELSE "ESRCH"

\* waitpid(child, &status, WNOHANG): the value returned.
waitpid_nohang ==
    IF pstate[child] = "zombie" THEN child
    ELSE IF pstate[child] = "running" THEN 0
    ELSE -1

\* The world after a waitpid() that returned `res`.
Reaped(res) == IF res = child THEN [pstate EXCEPT ![child] = "gone"] ELSE pstate

\* ------------------------------------------------------------ pid_is_alive
pid_is_alive(pid) ==
    IF pid <= 0 THEN FALSE
    ELSE IF kill0(pid) = "OK" THEN TRUE
    ELSE kill0(pid) = "EPERM"

\* ----------------------------------------------------------- list_children
\* struct child_buffer = {0}: data is NULL.
EmptyBuffer == [data |-> <<>>, capacity |-> 0, is_null |-> TRUE]

\* The buffer after the kernel wrote `pids` at its start.
Overlay(pids, old) == pids \o SubSeq(old, Len(pids) + 1, Len(old))

\* The allocations still to come, counted from the next one.
NextAlloc(fail_at) == IF fail_at > 1 THEN fail_at - 1 ELSE 0

\* list_children: the retry loop (81-106).
RECURSIVE list_children_loop(_, _, _)
\* Mutant: a full buffer is taken for a complete answer.
list_children_loop_truncating(buffer, sys, fail_at) ==
    LET r == proc_listchildpids(sys, buffer)
        written == [buffer EXCEPT !.data = Overlay(r.pids, @)]
    IN  IF r.result < 0
        THEN [rc |-> IF r.errno = "ESRCH" THEN 0 ELSE -1, count |-> 0,
              buffer |-> buffer]
        ELSE IF r.result <= buffer.capacity
        THEN [rc |-> 0, count |-> r.result, buffer |-> written]
        ELSE IF fail_at = 1
        THEN [rc |-> -1, count |-> 0, buffer |-> written]
        ELSE list_children_loop([written EXCEPT !.capacity = @ * 2,
                                                !.is_null = FALSE],
                                sys, NextAlloc(fail_at))

list_children_loop(buffer, sys, fail_at) ==
    LET r == proc_listchildpids(sys, buffer)
        written == [buffer EXCEPT !.data = Overlay(r.pids, @)]
    IN  IF r.result < 0
        THEN [rc |-> IF r.errno = "ESRCH" THEN 0 ELSE -1, count |-> 0,
              buffer |-> buffer]
        ELSE IF r.result < buffer.capacity
        THEN [rc |-> 0, count |-> r.result, buffer |-> written]
        ELSE IF fail_at = 1
        THEN [rc |-> -1, count |-> 0, buffer |-> written]
        ELSE list_children_loop([written EXCEPT !.capacity = @ * 2,
                                                !.is_null = FALSE],
                                sys, NextAlloc(fail_at))

\* Mutant: the last PID the kernel returned is not counted.
list_children_short(buffer, sys) ==
    LET r == IF buffer.capacity = 0
             THEN IF sys.fail_at = 1
                  THEN [rc |-> -1, count |-> 0,
                        buffer |-> [buffer EXCEPT !.capacity = InitialCapacity]]
                  ELSE list_children_loop(
                         [buffer EXCEPT !.capacity = InitialCapacity,
                                        !.is_null = FALSE],
                         sys, NextAlloc(sys.fail_at))
             ELSE list_children_loop(buffer, sys, sys.fail_at)
    IN  [r EXCEPT !.count = IF @ > 0 THEN @ - 1 ELSE 0]

\* list_children(pid, buffer, &children, &count) for a pid for which the
\* system answers as sys; `children` is buffer.data, so only rc, count and
\* the buffer are returned.
list_children(buffer, sys) ==
    IF buffer.capacity = 0
    THEN IF sys.fail_at = 1
         THEN [rc |-> -1, count |-> 0,
               buffer |-> [buffer EXCEPT !.capacity = InitialCapacity]]
         ELSE list_children_loop(
                [buffer EXCEPT !.capacity = InitialCapacity, !.is_null = FALSE],
                sys, NextAlloc(sys.fail_at))
    ELSE list_children_loop(buffer, sys, sys.fail_at)

\* --------------------------------------------------------------- watch_pid
\* 0: registered, 1: no such process, 2: perror + exit(1).
watch_pid(errno) ==
    IF errno = "OK" THEN 0
    ELSE IF errno = "ESRCH" THEN 1
    ELSE 2

\* The one element of a singleton.  Only({e : t \in {t0}}) is e with t0 for
\* t, the argument t0 being evaluated once.
Only(S) == CHOOSE x \in S : TRUE

\* ------------------------------------------------- the tracker, as a record
T == [pc |-> pc, seen |-> seen, active |-> active, next_active |-> next_active,
      to_poll |-> to_poll, next_to_poll |-> next_to_poll, child_buf |-> child_buf,
      child_exited |-> child_exited, i |-> i, j |-> j, child_count |-> child_count,
      stack |-> stack, arg |-> arg, wsite |-> wsite, already_seen |-> already_seen,
      events |-> events, ei |-> ei, output |-> output, exit_code |-> exit_code,
      listed |-> listed, errlog |-> errlog]

Assign(t) ==
    /\ pc' = t.pc /\ seen' = t.seen /\ active' = t.active
    /\ next_active' = t.next_active /\ to_poll' = t.to_poll
    /\ next_to_poll' = t.next_to_poll /\ child_buf' = t.child_buf
    /\ child_exited' = t.child_exited /\ i' = t.i /\ j' = t.j
    /\ child_count' = t.child_count /\ stack' = t.stack /\ arg' = t.arg
    /\ wsite' = t.wsite /\ already_seen' = t.already_seen
    /\ events' = t.events /\ ei' = t.ei /\ output' = t.output
    /\ exit_code' = t.exit_code
    /\ listed' = t.listed /\ errlog' = t.errlog
    /\ engine' = engine

\* The tracker's variables become the record t.
Commit(t) == \E u \in {t} : Assign(u)

\* Locals that are out of scope hold their initial values.
At(t0, label, pid) ==
    Only({(
        [t EXCEPT !.pc = label, !.arg = pid, !.wsite = "", !.already_seen = FALSE]
    ) : t \in {t0}})


\* ============================================================ kqueue engine
\* main: lines 289-296, reached when the loop is left.
kq_after_loop(t0) ==
    Only({(
        IF ~t.child_exited
        THEN At(t, "waitpid_final", 0)
        ELSE At(t, "report", 0)
    ) : t \in {t0}})

\* Mutant: the loop always blocks in kevent().
kq_loop_head_kevent_only(t0) ==
    Only({(
        IF ~(~t.child_exited \/ pid_set_count(t.active) > 0)
        THEN kq_after_loop(t)
        ELSE At(t, "k_kevent", 0)
    ) : t \in {t0}})

\* main: the while condition and the choice of the blocking call (222-223).
kq_loop_head(t0) ==
    Only({(
        IF ~(~t.child_exited \/ pid_set_count(t.active) > 0)
        THEN kq_after_loop(t)
        ELSE IF ~t.child_exited /\ pid_set_count(t.active) = 0
        THEN At(t, "waitpid_block", 0)
        ELSE At(t, "k_kevent", 0)
    ) : t \in {t0}})

\* main: the for loop over events[] (252-279), then the non-blocking reap
\* (281).  It stops at the first event that needs ensure_children.
RECURSIVE kq_handle_events(_)
RECURSIVE kq_event_exit(_)
kq_handle_events(t0) ==
    Only({(
        IF t.ei >= Len(t.events)
        THEN LET t1 == [t EXCEPT !.events = <<>>, !.ei = 0]
             IN  IF ~t1.child_exited THEN At(t1, "k_reap", 0) ELSE kq_loop_head(t1)
        ELSE LET ev == t.events[t.ei + 1]
                 pid == ev.ident
             IN  IF "EV_ERROR" \in ev.flags
                 THEN IF ev.data = "ESRCH"
                      THEN kq_handle_events(
                             [t EXCEPT !.active = pid_set_remove(t.active, pid),
                                       !.child_exited = IF pid = child THEN TRUE ELSE @,
                                       !.ei = @ + 1])
                      ELSE kq_handle_events([t EXCEPT !.ei = @ + 1])
                 ELSE IF "NOTE_FORK" \in ev.fflags
                 THEN At(t, "k_list", pid)
                 ELSE kq_event_exit(t)
    ) : t \in {t0}})

\* Mutant: an exit notification leaves the active set as it is.
kq_event_exit_ignored(t0) ==
    Only({(
        kq_handle_events([t EXCEPT !.ei = @ + 1])
    ) : t \in {t0}})

\* main: the NOTE_EXIT part of the current event (273-278), then the next one.
kq_event_exit(t0) ==
    Only({(
        LET ev == t.events[t.ei + 1]
            pid == ev.ident
            t1 == IF "NOTE_EXIT" \in ev.fflags
                  THEN [t EXCEPT !.active = pid_set_remove(t.active, pid),
                                 !.child_exited = IF pid = child THEN TRUE ELSE @]
                  ELSE t
        IN  kq_handle_events([t1 EXCEPT !.ei = @ + 1])
    ) : t \in {t0}})

\* The outermost add_pid_watch / ensure_children returned to main: either the
\* seeding call (217, then 219) or the call for a fork event (270).
kq_return(t0) ==
    Only({(
        IF t.events = <<>>
        THEN kq_loop_head([t EXCEPT !.child_exited = ~pid_set_contains(t.active, child),
                                    !.listed = <<>>])
        ELSE kq_event_exit([t EXCEPT !.listed = <<>>])
    ) : t \in {t0}})

\* ensure_children: the for loop (140-159) of the innermost activation, and
\* add_pid_watch up to its watch_pid call (167-178).  `children` points into
\* the shared buffer, so children[i] is read from child_buf as it is now.
RECURSIVE ensure_children_loop(_)
RECURSIVE add_pid_watch(_, _)
\* Mutant: a child that is seen and active is recursed into again.
ensure_children_loop_revisits(t0) ==
    Only({(
        IF t.stack = <<>>
        THEN kq_return(t)
        ELSE LET n == Len(t.stack)
                 f == t.stack[n]
             IN  IF f.i >= f.count
                 THEN ensure_children_loop([t EXCEPT !.stack = SubSeq(t.stack, 1, n - 1)])
                 ELSE LET child_pid == t.child_buf.data[f.i + 1]
                          t1 == [t EXCEPT !.stack[n].i = f.i + 1]
                          seen_before == pid_set_contains(t.seen, child_pid)
                          is_active == pid_set_contains(t.active, child_pid)
                      IN  IF child_pid <= 0
                          THEN ensure_children_loop(t1)
                          ELSE IF ~seen_before
                          THEN add_pid_watch(t1, child_pid)
                          ELSE IF ~is_active
                          THEN [At(t1, "k_watch", child_pid) EXCEPT
                                   !.active = pid_set_add(t1.active, child_pid),
                                   !.wsite = "ensure_children"]
                          ELSE At(t1, "k_list", child_pid)
    ) : t \in {t0}})

ensure_children_loop(t0) ==
    Only({(
        IF t.stack = <<>>
        THEN kq_return(t)
        ELSE LET n == Len(t.stack)
                 f == t.stack[n]
             IN  IF f.i >= f.count
                 THEN ensure_children_loop([t EXCEPT !.stack = SubSeq(t.stack, 1, n - 1)])
                 ELSE LET child_pid == t.child_buf.data[f.i + 1]
                          t1 == [t EXCEPT !.stack[n].i = f.i + 1]
                          seen_before == pid_set_contains(t.seen, child_pid)
                          is_active == pid_set_contains(t.active, child_pid)
                      IN  IF child_pid <= 0
                          THEN ensure_children_loop(t1)
                          ELSE IF ~seen_before
                          THEN add_pid_watch(t1, child_pid)
                          ELSE IF ~is_active
                          THEN [At(t1, "k_watch", child_pid) EXCEPT
                                   !.active = pid_set_add(t1.active, child_pid),
                                   !.wsite = "ensure_children"]
                          ELSE ensure_children_loop(t1)
    ) : t \in {t0}})

add_pid_watch(t0, pid) ==
    Only({(
        IF pid <= 0
        THEN ensure_children_loop(t)
        ELSE LET seen_before == pid_set_contains(t.seen, pid)
                 t1 == IF ~seen_before
                       THEN [t EXCEPT !.seen = pid_set_add(t.seen, pid)]
                       ELSE t
             IN  IF ~pid_set_contains(t1.active, pid)
                 THEN [At(t1, "k_watch", pid) EXCEPT
                          !.active = pid_set_add(t1.active, pid),
                          !.wsite = "add_pid_watch",
                          !.already_seen = seen_before]
                 ELSE IF ~seen_before
                 THEN At(t1, "k_list", pid)
                 ELSE ensure_children_loop(t1)
    ) : t \in {t0}})

\* Mutant: the dead PID is dropped from the seen set instead.
watch_failed_drops_seen(t) == [t EXCEPT !.seen = pid_set_remove(t.seen, t.arg)]

\* Mutant: the dead PID is left in the active set.
watch_failed_keeps_active(t) == t

\* watch_pid returned 1: lines 154-155 and 179-180.
watch_failed(t) == [t EXCEPT !.active = pid_set_remove(t.active, t.arg)]

\* Mutant: a return value of 1 is taken for success.
after_watch_ignores_esrch(t0, rc) ==
    Only({(
        IF rc = 0 \/ rc = 1
        THEN IF t.wsite = "add_pid_watch" /\ t.already_seen
             THEN ensure_children_loop(t)
             ELSE At(t, "k_list", t.arg)
        ELSE [At(t, "done", 0) EXCEPT !.exit_code = 1,
                                      !.errlog = Append(@, "kevent")]
    ) : t \in {t0}})

\* The code after a watch_pid call that returned rc (153-157, 178-186).
after_watch(t0, rc) ==
    Only({(
        IF rc = 1
        THEN ensure_children_loop(watch_failed(t))
        ELSE IF rc = 0
        THEN IF t.wsite = "add_pid_watch" /\ t.already_seen
             THEN ensure_children_loop(t)
             ELSE At(t, "k_list", t.arg)
        ELSE [At(t, "done", 0) EXCEPT !.exit_code = 1,
                                      !.errlog = Append(@, "kevent")]
    ) : t \in {t0}})

\* Mutant: a failed enumeration takes its PID out of the active set.
list_failed_untracks(t, r) ==
    [t EXCEPT !.child_buf = r.buffer,
              !.listed = Append(@, t.arg),
              !.active = pid_set_remove(@, t.arg),
              !.errlog = Append(@, "proc_listchildpids")]

\* ensure_children: list_children failed (135-138): perror, return.
list_failed(t, r) ==
    [t EXCEPT !.child_buf = r.buffer,
              !.listed = Append(@, t.arg),
              !.errlog = Append(@, "proc_listchildpids")]

\* ensure_children after its list_children call returned r (135-140).
after_list(t0, r) ==
    Only({(
        IF r.rc # 0
        THEN ensure_children_loop(list_failed(t, r))
        ELSE ensure_children_loop(
               [t EXCEPT !.child_buf = r.buffer,
                         !.listed = Append(@, t.arg),
                         !.stack = Append(@, [count |-> r.count, i |-> 0])])
    ) : t \in {t0}})


\* =========================================================== polling engine
\* main: lines 207-209, reached when the loop is left.
poll_after_loop(t0) ==
    Only({(
        IF ~t.child_exited
        THEN At(t, "waitpid_final", 0)
        ELSE At(t, "report", 0)
    ) : t \in {t0}})

\* main: the head of the for loop over to_poll (160-161) and, once it is
\* over, the swap and the termination test (191-198).
poll_advance(t0) ==
    Only({(
        IF t.i < pid_set_count(t.to_poll)
        THEN At(t, "p_probe", t.to_poll.data[t.i + 1])
        ELSE LET sa == pid_set_swap(t.active, t.next_active)
                 sp == pid_set_swap(t.to_poll, t.next_to_poll)
                 t1 == [t EXCEPT !.active = sa[1],
                                 !.next_active = pid_set_clear(sa[2]),
                                 !.to_poll = sp[1],
                                 !.next_to_poll = pid_set_clear(sp[2]),
                                 !.i = 0]
             IN  IF t1.child_exited /\ pid_set_count(t1.active) = 0
                 THEN poll_after_loop(t1)
                 ELSE At(t1, "p_sleep", 0)
    ) : t \in {t0}})

\* main: the head of the for loop over children (176-183), up to the
\* liveness probe of the next positive child.
RECURSIVE poll_children(_)
\* Mutant: a new child is not recorded in the seen set.
poll_children_unseen(t0) ==
    Only({(
        IF t.j >= t.child_count
        THEN poll_advance([t EXCEPT !.i = @ + 1, !.j = 0, !.child_count = 0])
        ELSE LET child_pid == t.child_buf.data[t.j + 1]
             IN  IF child_pid <= 0
                 THEN poll_children([t EXCEPT !.j = @ + 1])
                 ELSE At(t, "p_probe_child", child_pid)
    ) : t \in {t0}})

poll_children(t0) ==
    Only({(
        IF t.j >= t.child_count
        THEN poll_advance([t EXCEPT !.i = @ + 1, !.j = 0, !.child_count = 0])
        ELSE LET child_pid == t.child_buf.data[t.j + 1]
             IN  IF child_pid <= 0
                 THEN poll_children([t EXCEPT !.j = @ + 1])
                 ELSE At([t EXCEPT !.seen = IF ~pid_set_contains(t.seen, child_pid)
                                            THEN pid_set_add(t.seen, child_pid)
                                            ELSE @],
                         "p_probe_child", child_pid)
    ) : t \in {t0}})

\* Mutant: any non-zero waitpid result marks the command exited.
poll_head_any_result(t0, res) ==
    Only({(
        IF ~(~t.child_exited \/ pid_set_count(t.active) > 0)
        THEN poll_after_loop(t)
        ELSE poll_advance(
               [t EXCEPT !.child_exited = IF ~@ /\ res # 0 THEN TRUE ELSE @,
                         !.next_active = pid_set_clear(@),
                         !.next_to_poll = pid_set_clear(@),
                         !.i = 0])
    ) : t \in {t0}})

\* main: lines 149-158 given the value res of the non-blocking waitpid.
poll_head(t0, res) ==
    Only({(
        IF ~(~t.child_exited \/ pid_set_count(t.active) > 0)
        THEN poll_after_loop(t)
        ELSE poll_advance(
               [t EXCEPT !.child_exited = IF ~@ /\ res = child THEN TRUE ELSE @,
                         !.next_active = pid_set_clear(@),
                         !.next_to_poll = pid_set_clear(@),
                         !.i = 0])
    ) : t \in {t0}})

\* main: lines 162-171 given the liveness of to_poll.data[i].
poll_probed(t0, alive) ==
    Only({(
        IF ~alive
        THEN poll_advance([t EXCEPT !.i = @ + 1])
        ELSE [At(t, "p_list", t.arg) EXCEPT
                 !.next_active = pid_set_add(@, t.arg),
                 !.next_to_poll = pid_set_add(@, t.arg)]
    ) : t \in {t0}})

\* main: list_children failed (171-174): perror, continue.
poll_list_failed(t, r) ==
    [t EXCEPT !.child_buf = r.buffer,
              !.errlog = Append(@, "proc_listchildpids"),
              !.i = @ + 1]

\* main: lines 171-176 given what list_children returned.
poll_listed(t0, r) ==
    Only({(
        IF r.rc # 0
        THEN poll_advance(poll_list_failed(t, r))
        ELSE poll_children([t EXCEPT !.child_buf = r.buffer,
                                     !.child_count = r.count, !.j = 0])
    ) : t \in {t0}})

\* Mutant: an enumerated child is tracked whether or not it probed alive.
poll_child_probed_always(t0, alive) ==
    Only({(
        poll_children(
          [t EXCEPT !.next_active = pid_set_add(@, t.arg),
                    !.next_to_poll = pid_set_add(@, t.arg),
                    !.j = @ + 1])
    ) : t \in {t0}})

\* main: lines 184-188 given the liveness of children[j].
poll_child_probed(t0, alive) ==
    Only({(
        poll_children(
          [t EXCEPT !.next_active = IF alive THEN pid_set_add(@, t.arg) ELSE @,
                    !.next_to_poll = IF alive THEN pid_set_add(@, t.arg) ELSE @,
                    !.j = @ + 1])
    ) : t \in {t0}})


\* ================================================================== actions
\* ---- the tracked processes
\* A running process forks; the new process gets the next PID.
Fork(p) ==
    /\ pc # "done"
    /\ Running(p)
    /\ NextPid <= MaxProcs
    /\ pstate' = [pstate EXCEPT ![NextPid] = "running"]
    /\ parent' = [parent EXCEPT ![NextPid] = p]
    /\ cmd_live' = [cmd_live EXCEPT ![NextPid] = Running(child)]
    /\ kq_pend' = IF p \in kq_reg THEN Post(kq_pend, p, "NOTE_FORK") ELSE kq_pend
    /\ UNCHANGED <<sigchld_ign, kq_reg, intr, enumerated>>
    /\ UNCHANGED trkvars

\* Who reaps p when it exits: its parent if that is still running (the tracker
\* for the command, unless SIGCHLD is ignored), otherwise nobody keeps it.
LeavesZombie(p) ==
    IF p = child THEN ~sigchld_ign ELSE Running(parent[p])

\* A running process exits.  Its zombie children are reaped by init.
Exit(p) ==
    /\ pc # "done"
    /\ Running(p)
    /\ pstate' = [q \in Procs |->
                    IF q = p THEN (IF LeavesZombie(p) THEN "zombie" ELSE "gone")
                    ELSE IF parent[q] = p /\ pstate[q] = "zombie" THEN "gone"
                    ELSE pstate[q]]
    /\ kq_pend' = IF p \in kq_reg THEN Post(kq_pend, p, "NOTE_EXIT") ELSE kq_pend
    /\ kq_reg' = kq_reg \ {p}
    /\ UNCHANGED <<parent, cmd_live, sigchld_ign, intr, enumerated>>
    /\ UNCHANGED trkvars

\* A running tracked process waits for one of its zombie children.
Reap(q) ==
    /\ pc # "done"
    /\ q \in Procs /\ q # child
    /\ pstate[q] = "zombie"
    /\ Running(parent[q])
    /\ pstate' = [pstate EXCEPT ![q] = "gone"]
    /\ UNCHANGED <<parent, cmd_live, sigchld_ign, kq_reg, kq_pend, intr, enumerated>>
    /\ UNCHANGED trkvars

\* ---- polling engine (track_descendants.c main)
PStart ==
    /\ pc = "start" /\ engine = "poll"
    /\ Commit(At([T EXCEPT !.seen = pid_set_add(@, child),
                           !.active = pid_set_add(@, child),
                           !.to_poll = pid_set_add(@, child),
                           !.child_exited = FALSE],
                 "p_head", 0))
    /\ UNCHANGED envvars

PHead ==
    /\ pc = "p_head"
    /\ LET res == IF ~child_exited THEN waitpid_nohang ELSE 0
       IN  /\ pstate' = Reaped(res)
           /\ Commit(poll_head(T, res))
    /\ UNCHANGED <<parent, cmd_live, sigchld_ign, kq_reg, kq_pend, intr, enumerated>>

PProbe ==
    /\ pc = "p_probe"
    /\ Commit(poll_probed(T, pid_is_alive(arg)))
    /\ UNCHANGED envvars

PList ==
    /\ pc = "p_list"
    /\ Commit(poll_listed(T, list_children(child_buf, Kernel(arg))))
    /\ enumerated' = enumerated \cup Returned(Kernel(arg))
    /\ UNCHANGED <<pstate, parent, cmd_live, sigchld_ign, kq_reg, kq_pend, intr>>

PProbeChild ==
    /\ pc = "p_probe_child"
    /\ Commit(poll_child_probed(T, pid_is_alive(arg)))
    /\ UNCHANGED envvars

\* usleep(delay), lines 200-204; the delay itself has no effect here.
PSleep ==
    /\ pc = "p_sleep"
    /\ Commit(At(T, "p_head", 0))
    /\ UNCHANGED envvars

\* ---- event-driven engine (track_kqueue.c main)
\* kqueue() succeeded; the seeding call add_pid_watch(kq, child, ...).
KStart ==
    /\ pc = "start" /\ engine = "kq"
    /\ Commit(add_pid_watch(T, child))
    /\ UNCHANGED envvars

KWatch ==
    /\ pc = "k_watch"
    /\ LET rc == watch_pid(kevent_add(arg))
       IN  /\ kq_reg' = IF rc = 0 THEN kq_reg \cup {arg} ELSE kq_reg
           /\ Commit(after_watch(T, rc))
    /\ UNCHANGED <<pstate, parent, cmd_live, sigchld_ign, kq_pend, intr, enumerated>>

KList ==
    /\ pc = "k_list"
    /\ Commit(after_list(T, list_children(child_buf, Kernel(arg))))
    /\ enumerated' = enumerated \cup Returned(Kernel(arg))
    /\ UNCHANGED <<pstate, parent, cmd_live, sigchld_ign, kq_reg, kq_pend, intr>>

\* kevent(kq, NULL, 0, events, 32, NULL) returned nev > 0 events.
KEvent ==
    /\ pc = "k_kevent"
    /\ kq_pend # <<>>
    /\ LET nev == IF Len(kq_pend) < MaxEvents THEN Len(kq_pend) ELSE MaxEvents
           got == [k \in 1..nev |->
                     [ident |-> kq_pend[k].ident, fflags |-> kq_pend[k].fflags,
                      flags |-> {}, data |-> "OK"]]
       IN  /\ kq_pend' = SubSeq(kq_pend, nev + 1, Len(kq_pend))
           /\ Commit(kq_handle_events([T EXCEPT !.events = got, !.ei = 0]))
    /\ UNCHANGED <<pstate, parent, cmd_live, sigchld_ign, kq_reg, intr, enumerated>>

\* kevent() was interrupted by a signal: continue (245-247).
KEventEINTR ==
    /\ pc = "k_kevent"
    /\ intr < MaxIntr
    /\ intr' = intr + 1
    /\ Commit(kq_loop_head(T))
    /\ UNCHANGED <<pstate, parent, cmd_live, sigchld_ign, kq_reg, kq_pend, enumerated>>

\* waitpid(child, &child_status, WNOHANG) after the events (281-286).
KReap ==
    /\ pc = "k_reap"
    /\ LET res == waitpid_nohang
       IN  /\ pstate' = Reaped(res)
           /\ Commit(kq_loop_head([T EXCEPT !.child_exited =
                                               IF res = child THEN TRUE ELSE @]))
    /\ UNCHANGED <<parent, cmd_live, sigchld_ign, kq_reg, kq_pend, intr, enumerated>>

\* Mutant: the active set is printed.
Report_prints_active ==
    /\ pc = "report"
    /\ Commit([At(T, "done", 0) EXCEPT
                  !.output = active.data,
                  !.seen = pid_set_free(seen),
                  !.active = pid_set_free(active),
                  !.next_active = pid_set_free(next_active),
                  !.to_poll = pid_set_free(to_poll),
                  !.next_to_poll = pid_set_free(next_to_poll),
                  !.child_buf = EmptyBuffer,
                  !.exit_code = 0])
    /\ UNCHANGED envvars

\* ---- both engines: print the seen set, free everything, return 0.
Report ==
    /\ pc = "report"
    /\ Commit([At(T, "done", 0) EXCEPT
                  !.output = seen.data,
                  !.seen = pid_set_free(seen),
                  !.active = pid_set_free(active),
                  !.next_active = pid_set_free(next_active),
                  !.to_poll = pid_set_free(to_poll),
                  !.next_to_poll = pid_set_free(next_to_poll),
                  !.child_buf = EmptyBuffer,
                  !.exit_code = 0])
    /\ UNCHANGED envvars

\* ------------------------------------------------------------ specification
\* The state right after fork() returned the command's PID to the tracker.
Init ==
    /\ pstate = [p \in Procs |-> IF p = child THEN "running" ELSE "unborn"]
    /\ parent = [p \in Procs |-> 0]
    /\ cmd_live = [p \in Procs |-> p = child]
    /\ sigchld_ign \in BOOLEAN
    /\ kq_reg = {}
    /\ kq_pend = <<>>
    /\ intr = 0
    /\ enumerated = {}
    /\ engine \in {"poll", "kq"}
    /\ pc = "start"
    /\ seen = EmptySet /\ active = EmptySet /\ next_active = EmptySet
    /\ to_poll = EmptySet /\ next_to_poll = EmptySet
    /\ child_buf = EmptyBuffer
    /\ child_exited = FALSE
    /\ i = 0 /\ j = 0 /\ child_count = 0
    /\ stack = <<>>
    /\ arg = 0 /\ wsite = "" /\ already_seen = FALSE
    /\ events = <<>> /\ ei = 0
    /\ output = <<>>
    /\ exit_code = -1
    /\ listed = <<>> /\ errlog = <<>>

World == \E p \in Procs : Fork(p) \/ Exit(p) \/ Reap(p)

Tracker ==
    \/ PStart \/ PHead \/ PProbe \/ PList \/ PProbeChild \/ PSleep
    \/ KStart \/ KWatch \/ KList \/ KEvent \/ KEventEINTR \/ KReap
    \/ Report

Next == World \/ Tracker

Spec == Init /\ [][Next]_vars


\* ------------------------------------------- failing operating system calls
\* kqueue() failed: perror, return 1 (207-211).
KqueueFault ==
    /\ pc = "start" /\ engine = "kq"
    /\ Commit([At(T, "done", 0) EXCEPT !.exit_code = 1,
                                        !.errlog = Append(@, "kqueue")])
    /\ UNCHANGED envvars

\* The registering kevent() failed with an errno other than ESRCH.
KWatchFault ==
    /\ pc = "k_watch"
    /\ Commit(after_watch(T, watch_pid("EACCES")))
    /\ UNCHANGED envvars

\* The retrieving kevent() failed with an errno other than EINTR: perror,
\* break (244-250).
KEventFault ==
    /\ pc = "k_kevent"
    /\ Commit(kq_after_loop([T EXCEPT !.errlog = Append(@, "kevent")]))
    /\ UNCHANGED envvars

\* waitpid(child, &child_status, 0): blocks while the command runs.
waitpid_blocking ==
    IF pstate[child] = "zombie" THEN child ELSE -1

\* The blocking waitpid calls: in the loop of the event-driven engine
\* (224-239, errno is ECHILD when it fails here) and after the loop of
\* either engine (kqueue 289-296, polling 207-209).
WaitpidBlocking ==
    /\ pc \in {"waitpid_block", "waitpid_final"}
    /\ ~Running(child)
    /\ LET res == waitpid_blocking
       IN  /\ pstate' = Reaped(res)
           /\ IF pc = "waitpid_block"
              THEN Commit(kq_after_loop([T EXCEPT !.child_exited = TRUE]))
              ELSE Commit(At([T EXCEPT !.errlog = IF res < 0 /\ engine = "kq"
                                                       THEN Append(@, "waitpid")
                                                       ELSE @],
                             "report", 0))
    /\ UNCHANGED <<parent, cmd_live, sigchld_ign, kq_reg, kq_pend, intr, enumerated>>

\* A blocking waitpid of the event-driven engine was interrupted by a
\* signal: continue (230-232), or call it again (290-291).
WaitpidEINTR ==
    /\ engine = "kq"
    /\ pc \in {"waitpid_block", "waitpid_final"}
    /\ intr < MaxIntr
    /\ intr' = intr + 1
    /\ IF pc = "waitpid_block" THEN Commit(kq_loop_head(T)) ELSE Commit(T)
    /\ UNCHANGED <<pstate, parent, cmd_live, sigchld_ign, kq_reg, kq_pend, enumerated>>

Faults == KqueueFault \/ KWatchFault \/ KEventFault \/ WaitpidBlocking \/ WaitpidEINTR

NextFault == Next \/ Faults

\* The engines on an operating system whose calls may also fail for reasons
\* other than the death of the process they name.
SpecFault == Init /\ [][NextFault]_vars

\* ---------------------------------------------- failing enumerations, ENOMEM
\* What list_children meets when proc_listchildpids fails for a reason other
\* than the death of pid.
KernelFails(pid) == [Kernel(pid) EXCEPT !.errno = "EPERM"]

\* What list_children meets when its first allocation fails.
KernelNoMem(pid) == [Kernel(pid) EXCEPT !.fail_at = 1]

\* list_children(current, ...) fails in proc_listchildpids (polling, 171).
PListFault ==
    /\ pc = "p_list"
    /\ Len(errlog) < MaxFaults
    /\ Commit(poll_listed(T, list_children(child_buf, KernelFails(arg))))
    /\ UNCHANGED envvars

\* list_children(parent, ...) fails in proc_listchildpids (kqueue, 135).
KListFault ==
    /\ pc = "k_list"
    /\ Len(errlog) < MaxFaults
    /\ Commit(after_list(T, list_children(child_buf, KernelFails(arg))))
    /\ UNCHANGED envvars

\* list_children(current, ...) fails in malloc or realloc (polling, 84, 107).
PListNoMem ==
    /\ pc = "p_list"
    /\ Len(errlog) < MaxFaults
    /\ list_children(child_buf, KernelNoMem(arg)).rc # 0
    /\ Commit(poll_listed(T, list_children(child_buf, KernelNoMem(arg))))
    /\ UNCHANGED envvars

\* list_children(parent, ...) fails in malloc or realloc (kqueue, 75, 100).
KListNoMem ==
    /\ pc = "k_list"
    /\ Len(errlog) < MaxFaults
    /\ list_children(child_buf, KernelNoMem(arg)).rc # 0
    /\ Commit(after_list(T, list_children(child_buf, KernelNoMem(arg))))
    /\ UNCHANGED envvars

\* pid_set_add fails in realloc: perror, exit(1) (kqueue 45-49, polling
\* 44-48).  A set grows when its count has reached its capacity: at the
\* seeding of either engine and at the first live PID of the first cycle.
SetNoMem ==
    /\ \/ pc = "start"
       \/ /\ pc = "p_probe"
          /\ pid_is_alive(arg)
          /\ ~pid_set_contains(next_active, arg)
          /\ pid_set_count(next_active) = next_active.capacity
    /\ Commit([At(T, "done", 0) EXCEPT !.exit_code = 1,
                                        !.errlog = Append(@, "realloc")])
    /\ UNCHANGED envvars

ListFaults == PListFault \/ KListFault \/ PListNoMem \/ KListNoMem \/ SetNoMem

NextListFault == Next \/ ListFaults

\* The engines when an enumeration or an allocation may fail.
SpecListFault == Init /\ [][NextListFault]_vars

\* ---------------------------------------------------------------- fairness
\* The tracker keeps running, and every tracked process eventually exits.
FairSpec ==
    /\ Spec
    /\ WF_vars(Tracker)
    /\ \A p \in Procs : WF_vars(Exit(p))

\* ------------------------------------------------------------- burst trees
\* The command forked a whole tree before the tracker's first system call:
\* every process of 2..BurstProcs was forked by some older one.
InitBurst ==
    /\ pstate = [p \in Procs |-> IF p <= BurstProcs THEN "running" ELSE "unborn"]
    /\ parent \in {f \in [Procs -> 0..BurstProcs] :
                      \A p \in Procs :
                          IF p = child \/ p > BurstProcs THEN f[p] = 0
                          ELSE f[p] >= 1 /\ f[p] < p}
    /\ cmd_live = [p \in Procs |-> p <= BurstProcs]
    /\ sigchld_ign = FALSE
    /\ kq_reg = {}
    /\ kq_pend = <<>>
    /\ intr = 0
    /\ enumerated = {}
    /\ engine = "kq"
    /\ pc = "start"
    /\ seen = EmptySet /\ active = EmptySet /\ next_active = EmptySet
    /\ to_poll = EmptySet /\ next_to_poll = EmptySet
    /\ child_buf = EmptyBuffer
    /\ child_exited = FALSE
    /\ i = 0 /\ j = 0 /\ child_count = 0
    /\ stack = <<>>
    /\ arg = 0 /\ wsite = "" /\ already_seen = FALSE
    /\ events = <<>> /\ ei = 0
    /\ output = <<>>
    /\ exit_code = -1
    /\ listed = <<>> /\ errlog = <<>>

NextBurst ==
    \/ \E p \in Procs : Exit(p) \/ Reap(p)
    \/ KStart \/ KWatch \/ KList \/ KEvent \/ KEventEINTR \/ KReap
    \/ Report

\* The event-driven engine started on a tree that is already there; the
\* processes then only exit.
SpecBurst == InitBurst /\ [][NextBurst]_vars

\* ------------------------------------------------- the enumerator by itself
\* The PIDs of n children of the command, newest first.
Kids(n) == [k \in 1..n |-> child + n + 1 - k]

\* A process with n children, as list_children meets it.
Family(n) == [errno |-> "OK", kids |-> Kids(n), fail_at |-> 0]

\* Numbers of children at and next to the capacities the buffer goes through.
ChildCounts ==
    {n \in 0..MaxChildren :
        n % InitialCapacity \in {0, 1, InitialCapacity - 1}}

InitEnum ==
    /\ pstate = [p \in Procs |-> IF p = child THEN "running" ELSE "unborn"]
    /\ parent = [p \in Procs |-> 0]
    /\ cmd_live = [p \in Procs |-> p = child]
    /\ sigchld_ign = FALSE
    /\ kq_reg = {}
    /\ kq_pend = <<>>
    /\ intr = 0
    /\ enumerated = {}
    /\ engine \in {"poll", "kq"}
    /\ pc = "enum"
    /\ seen = EmptySet /\ active = EmptySet /\ next_active = EmptySet
    /\ to_poll = EmptySet /\ next_to_poll = EmptySet
    /\ child_buf = EmptyBuffer
    /\ child_exited = FALSE
    /\ i = 0 /\ j = 0 /\ child_count = 0
    /\ stack = <<>>
    /\ arg = 0 /\ wsite = "" /\ already_seen = FALSE
    /\ events = <<>> /\ ei = 0
    /\ output = <<>>
    /\ exit_code = -1
    /\ listed = <<>> /\ errlog = <<>>

\* list_children(pid, &child_buf, &children, &child_count) for a pid that has
\* n children (arg keeps n).
EnumCall(n) ==
    /\ pc = "enum"
    /\ LET r == list_children(child_buf, Family(n))
       IN  /\ child_buf' = r.buffer
           /\ child_count' = r.count
           /\ arg' = n
    /\ UNCHANGED envvars
    /\ UNCHANGED <<engine, pc, seen, active, next_active, to_poll, next_to_poll,
                   child_exited, i, j, stack, wsite, already_seen, events, ei,
                   output, exit_code, listed, errlog>>

\* The same call for a pid that is gone.
EnumCallGone ==
    /\ pc = "enum"
    /\ LET r == list_children(child_buf, [Family(0) EXCEPT !.errno = "ESRCH"])
       IN  /\ child_buf' = r.buffer
           /\ child_count' = r.count
           /\ arg' = 0
    /\ UNCHANGED envvars
    /\ UNCHANGED <<engine, pc, seen, active, next_active, to_poll, next_to_poll,
                   child_exited, i, j, stack, wsite, already_seen, events, ei,
                   output, exit_code, listed, errlog>>

NextEnum == (\E n \in ChildCounts : EnumCall(n)) \/ EnumCallGone

\* Calls of list_children in a row on one buffer.
SpecEnum == InitEnum /\ [][NextEnum]_vars

\* ----------------------------------------------------- the pid_set by itself
\* The set after pid_set_add of 1, 2, ..., n.
RECURSIVE Filled(_)
Filled(n) == IF n = 0 THEN EmptySet ELSE pid_set_add(Filled(n - 1), n)

\* PIDs handed to the set operations: invalid ones, small ones, and the ones
\* around the first capacity.
TestPids == {-1, 0, 1, 2, InitialCapacity, InitialCapacity + 1, InitialCapacity + 2}

\* Two sets (seen, active) in main; j counts the operations applied.
InitSet ==
    /\ pstate = [p \in Procs |-> IF p = child THEN "running" ELSE "unborn"]
    /\ parent = [p \in Procs |-> 0]
    /\ cmd_live = [p \in Procs |-> p = child]
    /\ sigchld_ign = FALSE
    /\ kq_reg = {}
    /\ kq_pend = <<>>
    /\ intr = 0
    /\ enumerated = {}
    /\ engine = "poll"
    /\ pc = "set_ops"
    /\ seen \in {Filled(n) : n \in 0..InitialCapacity}
    /\ active = EmptySet /\ next_active = EmptySet
    /\ to_poll = EmptySet /\ next_to_poll = EmptySet
    /\ child_buf = EmptyBuffer
    /\ child_exited = FALSE
    /\ i = 0 /\ j = 0 /\ child_count = 0
    /\ stack = <<>>
    /\ arg = 0 /\ wsite = "" /\ already_seen = FALSE
    /\ events = <<>> /\ ei = 0
    /\ output = <<>>
    /\ exit_code = -1
    /\ listed = <<>> /\ errlog = <<>>

\* What a set operation leaves alone.
SetFrame ==
    /\ UNCHANGED envvars
    /\ UNCHANGED <<engine, pc, next_active, to_poll, next_to_poll, child_buf,
                   child_exited, i, child_count, stack, wsite,
                   already_seen, events, ei, output, exit_code, listed, errlog>>

SetAdd(pid) ==
    /\ pc = "set_ops" /\ j < MaxOps
    /\ seen' = pid_set_add(seen, pid)
    /\ j' = j + 1 /\ arg' = pid
    /\ UNCHANGED active
    /\ SetFrame

SetRemove(pid) ==
    /\ pc = "set_ops" /\ j < MaxOps
    /\ seen' = pid_set_remove(seen, pid)
    /\ j' = j + 1 /\ arg' = pid
    /\ UNCHANGED active
    /\ SetFrame

SetClear ==
    /\ pc = "set_ops" /\ j < MaxOps
    /\ seen' = pid_set_clear(seen)
    /\ j' = j + 1 /\ arg' = 0
    /\ UNCHANGED active
    /\ SetFrame

SetSwap ==
    /\ pc = "set_ops" /\ j < MaxOps
    /\ seen' = pid_set_swap(seen, active)[1]
    /\ active' = pid_set_swap(seen, active)[2]
    /\ j' = j + 1 /\ arg' = 0
    /\ SetFrame

NextSet ==
    \/ \E pid \in TestPids : SetAdd(pid) \/ SetRemove(pid)
    \/ SetClear
    \/ SetSwap

\* Operations of the pid_set in a row, on two sets.
SpecSet == InitSet /\ [][NextSet]_vars

\* The event-driven engine on a tree that is already there, never held up
\* inside add_pid_watch / ensure_children.
FairBurst == SpecBurst /\ WF_vars(KStart \/ KWatch \/ KList)

\* =================================================================== claims
Range(seq) == {seq[k] : k \in 1..Len(seq)}

NoDuplicates(seq) == \A a, b \in 1..Len(seq) : seq[a] = seq[b] => a = b

\* C1: in both engines, over every step before the report is printed, every
\* PID of the seen set stays in it, the size of the seen set does not
\* decrease, and its storage never holds a PID twice.
C1_SeenMonotonic ==
    [][pc # "report" =>
          /\ Members(seen) \subseteq Members(seen')
          /\ pid_set_count(seen') >= pid_set_count(seen)
          /\ NoDuplicates(seen'.data)]_vars

\* C1 witness: a kqueue run that has seen three PIDs and has already dropped
\* one of them from the active set.
C1_Witness ==
    /\ engine = "kq" /\ pc = "k_kevent"
    /\ pid_set_count(seen) = 3
    /\ pid_set_count(active) < 3

\* C2: in both engines, wherever the loop stands, every PID of the active set
\* is in the seen set.
C2_ActiveSubsetSeen == Members(active) \subseteq Members(seen)

\* C2 witness: the polling loop after a swap, holding an active set of three.
C2_Witness ==
    /\ engine = "poll" /\ pc = "p_sleep"
    /\ pid_set_count(active) = 3

\* C3: event-driven engine: when the loop is left and the report is printed,
\* the active set is empty and the command has been reaped by a successful
\* waitpid on its PID.
C3_KqueueLoopExit ==
    (engine = "kq" /\ pc = "report") =>
        /\ pid_set_count(active) = 0
        /\ pstate[child] = "gone"
        /\ ~sigchld_ign

\* C4: polling engine: when the loop is left and the report is printed, the
\* active set is empty and a waitpid on the command returned its PID.
C4_PollLoopExit ==
    (engine = "poll" /\ pc = "report") =>
        /\ pid_set_count(active) = 0
        /\ child_exited
        /\ pstate[child] = "gone"
        /\ ~sigchld_ign

\* C4 witness: the polling loop was left after descendants had been tracked.
C4_Witness ==
    /\ engine = "poll" /\ pc = "report"
    /\ pid_set_count(seen) = 3

\* Scenario C for a child c and a grandchild g: the command forked c, and c
\* forked g while the command was still running.
ScenarioC(c, g) ==
    /\ parent[c] = child /\ pstate[c] # "unborn"
    /\ parent[g] = c /\ pstate[g] # "unborn"
    /\ cmd_live[g]

\* No process has forked more than one child.
Chain == \A p \in Procs : Cardinality({q \in Procs : parent[q] = p}) <= 1

C8_ScenarioA ==
    /\ (pc = "done" /\ exit_code = 0 /\ \A q \in Procs \ {child} : pstate[q] = "unborn")
           => output = <<child>>
    /\ pc \notin {"start", "done"} => pid_set_contains(seen, child)

\* C8 witness: a run of a command that never forked has printed its report.
C8_Witness ==
    /\ pc = "done" /\ exit_code = 0
    /\ \A q \in Procs \ {child} : pstate[q] = "unborn"
    /\ output = <<child>>


\* The event-driven loop terminates and the seen set is printed.
KqueueTerminates == (engine = "kq") => <>(pc = "done" /\ exit_code = 0)

\* The tracker does not stay blocked in the event retrieval while a PID whose
\* process is dead sits in the active set.
NoBlockOnDead ==
    (engine = "kq" /\ pc = "k_kevent" /\ \E p \in Members(active) : ~Running(p))
        ~> (pc # "k_kevent")

\* C5: event-driven engine: when the command and every descendant eventually
\* exit and the kernel delivers its events, the loop terminates and the seen
\* set is printed, and the tracker never stays blocked while the active set
\* holds a PID whose process is dead.
C5_KqueueLive == KqueueTerminates /\ NoBlockOnDead

\* C5 witness: the event-driven loop has ended after tracking descendants
\* that were dropped from the active set one by one.
C5_Witness ==
    /\ engine = "kq" /\ pc = "done" /\ exit_code = 0
    /\ Len(output) = 3

\* C6: polling engine: when the command and every descendant eventually exit
\* and are reaped, the loop terminates and the seen set is printed, also when
\* the non-blocking waitpid never returns the command's PID.
C6_PollTerminates == (engine = "poll") => <>(pc = "done")

\* C9: Scenario E: when the subscription of a PID fails with "no such
\* process", at either call site, the PID is out of the active set once the
\* failure is handled, the active set is otherwise unchanged, the seen set is
\* unchanged, the children of the PID are not enumerated, and the run goes on.
C9_ScenarioE ==
    (pc = "k_watch" /\ watch_pid(kevent_add(arg)) = 1) =>
        LET handled == watch_failed(T)
            resumed == after_watch(T, 1)
        IN  /\ ~pid_set_contains(handled.active, arg)
            /\ Members(handled.active) = Members(active) \ {arg}
            /\ pid_set_count(handled.active) = pid_set_count(active) - 1
            /\ handled.seen = seen
            /\ handled.stack = stack
            /\ ~(resumed.pc = "k_list" /\ resumed.arg = arg)
            /\ resumed.exit_code = -1
            /\ resumed.pc # "done"

\* C9 witness: the re-sync branch of ensure_children is about to subscribe a
\* PID whose process is gone.
C9_Witness ==
    /\ pc = "k_watch" /\ wsite = "ensure_children"
    /\ watch_pid(kevent_add(arg)) = 1

\* C10: apart from a failure to spawn and a failed allocation, no failure
\* of an operating system call ends the run early: the run ends with status
\* 0 after printing, and the loop is left only once the command has exited
\* and the active set is empty.
C10_OnlyTwoFatalCases ==
    /\ pc = "done" => exit_code = 0
    /\ pc = "report" => (child_exited /\ pid_set_count(active) = 0)

\* C11: a failed allocation, in pid_set_add as in list_children, ends the
\* run at once with a non-zero status: no run goes on with a child buffer
\* whose recorded capacity has no storage behind it, and a run that printed
\* the realloc failure of pid_set_add has exited with status 1.
C11_AllocationFailureFatal ==
    /\ pc # "done" => (child_buf.capacity > 0 => ~child_buf.is_null)
    /\ (\E k \in 1..Len(errlog) : errlog[k] = "realloc") =>
           (pc = "done" /\ exit_code = 1)

\* The ways an enumeration of arg can fail other than "no such process".
FailingKernels == {KernelFails(arg), KernelNoMem(arg)}

\* C12, polling: the failure is handled by `continue`.
C12_Polling ==
    \A sys \in FailingKernels :
        LET r == list_children(child_buf, sys)
            handled == poll_list_failed(T, r)
            resumed == poll_listed(T, r)
        IN  r.rc # 0 =>
              /\ handled.seen = seen /\ handled.active = active
              /\ handled.to_poll = to_poll
              /\ handled.next_active = next_active
              /\ handled.next_to_poll = next_to_poll
              /\ pid_set_contains(handled.next_active, arg)
              /\ pid_set_contains(handled.next_to_poll, arg)
              /\ resumed.seen = seen
              /\ resumed.exit_code = -1 /\ resumed.pc # "done"
              /\ IF i + 1 < pid_set_count(to_poll)
                 THEN /\ resumed.pc = "p_probe"
                      /\ resumed.arg = to_poll.data[i + 2]
                      /\ resumed.next_active = next_active
                      /\ resumed.next_to_poll = next_to_poll
                 ELSE /\ resumed.active.data = next_active.data
                      /\ resumed.to_poll.data = next_to_poll.data

\* C12, event-driven: the failure is handled by `return`.
C12_Kqueue ==
    \A sys \in FailingKernels :
        LET r == list_children(child_buf, sys)
            handled == list_failed(T, r)
            resumed == after_list(T, r)
        IN  r.rc # 0 =>
              /\ handled.seen = seen /\ handled.active = active
              /\ handled.stack = stack
              /\ pid_set_contains(handled.active, arg)
              /\ Members(seen) \subseteq Members(resumed.seen)
              /\ resumed.exit_code = -1 /\ resumed.pc # "done"

\* C12: when list_children fails for a PID for a reason other than "no such
\* process", the handling of that PID leaves the seen set and the members
\* of the active and next sets as they are, the PID stays tracked (polling:
\* in the next active set and the next frontier; event-driven: in the
\* active set), and the loop goes on with the next PID or event.
C12_FailedEnumerationFrame ==
    /\ pc = "p_list" => C12_Polling
    /\ pc = "k_list" => C12_Kqueue

\* C12 witness: the polling loop has logged a failed enumeration of one
\* frontier PID and is about to probe the next one.
C12_Witness ==
    /\ engine = "poll" /\ pc = "p_probe" /\ i > 0
    /\ errlog = <<"proc_listchildpids">>
    /\ pid_set_count(next_active) > 0

\* C13: Scenario D: for a process with n children list_children succeeds
\* with exactly those n children, the count it returns is below the capacity
\* it ends with, the capacity never shrinks from call to call, the buffer has
\* storage, and for a process that is gone it succeeds with no children.
C13_EnumeratorComplete ==
    pc = "enum" =>
        \A n \in 0..MaxChildren :
            LET r == list_children(child_buf, Family(n))
                gone == list_children(child_buf, [Family(n) EXCEPT !.errno = "ESRCH"])
            IN  /\ r.rc = 0
                /\ r.count = n
                /\ SubSeq(r.buffer.data, 1, r.count) = Kids(n)
                /\ r.count < r.buffer.capacity
                /\ r.buffer.capacity >= child_buf.capacity
                /\ ~r.buffer.is_null
                /\ gone.rc = 0 /\ gone.count = 0
                /\ gone.buffer.capacity >= child_buf.capacity

\* C13 witness: a call found as many children as the buffer held and came
\* back with all of them in a buffer of twice the size.
C13_Witness ==
    /\ pc = "enum"
    /\ child_count = InitialCapacity
    /\ arg = InitialCapacity
    /\ child_buf.capacity = 2 * InitialCapacity

\* pid_set_add(set, pid) against its contract.
AddContract(set, pid) ==
    LET added == pid_set_add(set, pid)
    IN  /\ (pid <= 0 \/ pid_set_contains(set, pid)) => added = set
        /\ ~(pid <= 0 \/ pid_set_contains(set, pid)) =>
              /\ pid_set_count(added) = pid_set_count(set) + 1
              /\ Members(added) = Members(set) \cup {pid}
              /\ SubSeq(added.data, 1, pid_set_count(set)) = set.data
              /\ pid_set_count(added) <= added.capacity
              /\ added.capacity >= set.capacity
        /\ pid_set_add(added, pid) = added
        /\ (NoDuplicates(set.data) => NoDuplicates(added.data))

\* C14: for every set the operations can build and every pid, add(pid)
\* changes nothing when pid <= 0 or pid is present, so that adding twice is
\* adding once; otherwise the size grows by exactly one and the members
\* are the old ones plus pid, also when the capacity has to grow; and the
\* set never holds a PID twice.
C14_SetAdd ==
    pc = "set_ops" =>
        /\ NoDuplicates(seen.data) /\ NoDuplicates(active.data)
        /\ \A pid \in TestPids : AddContract(seen, pid) /\ AddContract(active, pid)

\* C14 witness: an add has taken a full set of 16 to 17 members and doubled
\* its capacity.
C14_Witness ==
    /\ pc = "set_ops"
    /\ pid_set_count(seen) = InitialCapacity + 1
    /\ seen.capacity = 2 * InitialCapacity

\* pid_set_remove(set, pid) against its contract.
RemoveContract(set, pid) ==
    LET removed == pid_set_remove(set, pid)
    IN  /\ ~pid_set_contains(set, pid) => removed = set
        /\ pid_set_contains(set, pid) =>
              /\ pid_set_count(removed) = pid_set_count(set) - 1
              /\ Members(removed) = Members(set) \ {pid}
              /\ NoDuplicates(removed.data)
              /\ removed.capacity = set.capacity

\* C15: for every set the operations can build and every pid, remove(pid)
\* changes nothing when pid is absent; when pid is present the size drops
\* by exactly one and the members are the old ones without pid, wherever
\* pid sits in the storage.
C15_SetRemove ==
    pc = "set_ops" =>
        \A pid \in TestPids : RemoveContract(seen, pid) /\ RemoveContract(active, pid)

\* C15 witness: a remove took the first element out of a full set, and the
\* last element sits in its place.
C15_Witness ==
    /\ pc = "set_ops"
    /\ pid_set_count(seen) = InitialCapacity - 1
    /\ seen.data[1] = InitialCapacity
    /\ seen.capacity = InitialCapacity

\* C16: every PID an enumeration of ensure_children returned has been handled
\* by the time that ensure_children returns, whatever the nested enumerations
\* wrote into the shared buffer meanwhile: once the outermost call is back
\* in main, every PID the kernel returned is in the seen set.
C16_EnsureChildrenHandlesAll ==
    (engine = "kq" /\ pc \in {"k_kevent", "k_reap", "waitpid_block",
                              "waitpid_final", "report"}) =>
        enumerated \subseteq Members(seen)

\* The members of the set the current cycle builds: the next active set
\* until the swap, the active set after it.
PollBuilt ==
    IF pc \in {"p_sleep", "report", "waitpid_final"}
    THEN Members(active)
    ELSE Members(next_active)

\* C17: polling engine, over every step of a cycle: the cycle starts from
\* empty next sets; a frontier PID that probes alive is added and its
\* children are enumerated next, one that probes dead is dropped and its
\* children are not enumerated; an enumerated child is in the seen set
\* before it is probed and is added exactly when it probes alive; nothing
\* else is added; after the swap the active set and the frontier have the
\* same members, both next sets are empty, and every PID an enumeration
\* returned is in the seen set.
C17_PollCycle ==
    [][(engine = "poll" /\ ~UNCHANGED trkvars) =>
          /\ pc = "p_head" =>
                /\ PollBuilt' = {}
                /\ pid_set_count(next_active') = 0
                /\ pid_set_count(next_to_poll') = 0
          /\ pc = "p_probe" =>
                IF pid_is_alive(arg)
                THEN /\ PollBuilt' = Members(next_active) \cup {arg}
                     /\ pc' = "p_list" /\ arg' = arg
                ELSE /\ PollBuilt' = Members(next_active)
                     /\ pc' # "p_list"
          /\ pc = "p_list" =>
                /\ pid_set_contains(next_active, arg)
                /\ PollBuilt' = Members(next_active)
          /\ pc = "p_probe_child" =>
                /\ pid_set_contains(seen, arg)
                /\ PollBuilt' = Members(next_active) \cup
                                   (IF pid_is_alive(arg) THEN {arg} ELSE {})
          /\ (pc \in {"p_head", "p_probe", "p_list", "p_probe_child"}
                /\ pc' \in {"p_sleep", "report", "waitpid_final"}) =>
                /\ Members(active') = Members(to_poll')
                /\ pid_set_count(next_active') = 0
                /\ pid_set_count(next_to_poll') = 0
                /\ enumerated' \subseteq Members(seen')
    ]_vars

\* C17 witness: a cycle ended with three PIDs seen and one of them dropped.
C17_Witness ==
    /\ engine = "poll" /\ pc = "p_sleep"
    /\ pid_set_count(seen) = 3
    /\ pid_set_count(active) = 2
    /\ pid_set_count(next_active) = 0

\* C18: event-driven loop: kevent() is awaited only with a non-empty active
\* set, and the blocking waitpid only with an empty active set and the
\* command not marked exited; whatever child_exited and the active set are
\* at the loop head, the iteration picks exactly one of the two blocking
\* calls or leaves the loop; and an interrupted blocking call is made again
\* with the seen and active sets as they were.
C18_BlockingPoint ==
    engine = "kq" =>
        /\ pc = "k_kevent" => pid_set_count(active) > 0
        /\ pc = "waitpid_block" => (pid_set_count(active) = 0 /\ ~child_exited)
        /\ \A ce \in BOOLEAN :
             \A a \in {EmptySet, active, pid_set_add(EmptySet, child)} :
                LET head == kq_loop_head([T EXCEPT !.child_exited = ce, !.active = a])
                IN  /\ head.pc \in {"k_kevent", "waitpid_block", "waitpid_final", "report"}
                    /\ (head.pc = "k_kevent") = (pid_set_count(a) > 0)
                    /\ (head.pc = "waitpid_block") = (pid_set_count(a) = 0 /\ ~ce)
                    /\ (head.pc = "report") = (pid_set_count(a) = 0 /\ ce)
                    /\ head.seen = seen /\ head.active = a
        /\ pc \in {"k_kevent", "waitpid_block"} =>
             LET retried == kq_loop_head(T)
             IN  /\ retried.pc = pc
                 /\ retried.seen = seen /\ retried.active = active
                 /\ retried.child_exited = child_exited

\* C18 witness: kevent() was interrupted and is awaited again, with PIDs in
\* the active set.
C18_Witness ==
    /\ engine = "kq" /\ pc = "k_kevent"
    /\ intr = MaxIntr
    /\ pid_set_count(active) = 2

\* In no run does the loop get to its blocking waitpid (224).
NeverWaitpidBlock == pc # "waitpid_block"

\* The kernel holds a subscription of p that was registered with success: a
\* knote on the live process, or the exit notification that knote left.
Subscribed(p) ==
    \/ p \in kq_reg
    \/ \E k \in 1..Len(kq_pend) :
          kq_pend[k].ident = p /\ "NOTE_EXIT" \in kq_pend[k].fflags

\* The exit notification of p is part of what the current step handles: it
\* is in the batch kevent() is about to return, or among the events of the
\* batch that are still to be handled.
ExitNotified(p) ==
    \/ /\ pc = "k_kevent"
       /\ \E k \in 1..Len(kq_pend) :
             kq_pend[k].ident = p /\ "NOTE_EXIT" \in kq_pend[k].fflags
    \/ \E k \in (ei + 1)..Len(events) :
          /\ events[k].ident = p
          /\ \/ "NOTE_EXIT" \in events[k].fflags
             \/ ("EV_ERROR" \in events[k].flags /\ events[k].data = "ESRCH")

\* Event-driven engine, at the loop head: every active PID is subscribed.
ActiveSubscribed ==
    (engine = "kq" /\ pc \in {"k_kevent", "waitpid_block"}) =>
        \A p \in Members(active) : Subscribed(p)

\* Event-driven engine, before the report: a PID leaves the active set only
\* with its exit notification (or error event), or right after its own
\* registration failed.
LeavesOnlyOnExit ==
    (engine = "kq" /\ pc # "report") =>
        \A p \in Members(active) \ Members(active') :
            \/ ExitNotified(p)
            \/ pc = "k_watch" /\ p = arg /\ watch_pid(kevent_add(arg)) = 1

\* C19: event-driven engine: at every loop head each PID of the active set
\* has a subscription in the kernel that was registered with success, none
\* is left there after a failed registration, and a PID leaves the active
\* set only on its exit notification or an error event.
C19_SubscriptionInvariant == []ActiveSubscribed /\ [][LeavesOnlyOnExit]_vars

\* C19 witness: the loop head with an active PID whose process has exited
\* and whose exit notification is waiting.
C19_Witness ==
    /\ engine = "kq" /\ pc = "k_kevent"
    /\ pid_set_count(active) >= 2
    /\ \E p \in Members(active) : p \notin kq_reg /\ Subscribed(p)

\* Event-driven engine: the tracker is inside an outermost call of
\* add_pid_watch / ensure_children.
InRecursion == engine = "kq" /\ pc \in {"k_watch", "k_list"}

\* Within one outermost call no PID has its children enumerated twice, and
\* every PID that was recursed into is seen and active; a PID about to be
\* subscribed or enumerated has not been recursed into yet; and the depth
\* of the recursion is bounded by the number of PIDs recursed into.
VisitsOnce ==
    engine = "kq" =>
        /\ NoDuplicates(listed)
        /\ Range(listed) \subseteq Members(seen)
        /\ Range(listed) \subseteq Members(active)
        /\ Len(stack) <= Len(listed)
        /\ InRecursion =>
              /\ arg \notin Range(listed)
              /\ pid_set_contains(active, arg)
              /\ pid_set_contains(seen, arg)

\* C20: the mutual recursion of add_pid_watch and ensure_children ends for
\* every tree and every pattern of failed subscriptions: each outermost call
\* returns to main, and within it no PID is recursed into twice.
C20_RecursionTerminates == []VisitsOnce /\ (InRecursion ~> ~InRecursion)

\* C20 witness: an outermost call has recursed into all PIDs of a tree but
\* the last, is three activations deep or more, and is about to enumerate
\* the children of the last one.
C20_Witness ==
    /\ engine = "kq" /\ pc = "k_list"
    /\ Len(listed) = BurstProcs - 1
    /\ Len(stack) >= 3

====
